---- MODULE Spec2Model ----
(***************************************************************************)
(* Academic records tracker: bulk attendance submission (form path and     *)
(* JSON sync path) and the grade audit snapshot report, modelled over a    *)
(* relational store of Attendance, Grade and GradeAuditLog rows.           *)
(***************************************************************************)
EXTENDS Integers, Sequences, FiniteSets, TLC

VARIABLES
    attendance,  \* set of Attendance rows [id, student, course, date, status]
    grades,      \* set of Grade rows [id, student, course, lo, score, created_at, updated_at]
    auditLog,    \* sequence of GradeAuditLog rows, in insertion order
    now,         \* the clock read by timezone.now()
    last         \* the last request handled and the response it got

vars == <<attendance, grades, auditLog, now, last>>

----------------------------------------------------------------------------
(* Bounds of the model *)

MaxBatch == 2     \* entries in one attendance submission
MaxTime == 2      \* last instant of the clock
MaxGrades == 2    \* Grade rows in the store
MaxReports == 1   \* audit reports generated in one behaviour

----------------------------------------------------------------------------
(* Users, roles and courses *)

Anonymous == 0
StudentIds == {1, 2}
InstructorIds == {3, 4}
HeadIds == {5}
UserIds == StudentIds \cup InstructorIds \cup HeadIds
Callers == {Anonymous, 1, 3, 5}

Role_InstructorAudits(u) ==
    IF u \in StudentIds THEN "student"
    ELSE IF u \in InstructorIds \cup HeadIds THEN "department_head"
    ELSE "anonymous"

\* user.role
Role(u) ==
    IF u \in StudentIds THEN "student"
    ELSE IF u \in InstructorIds THEN "instructor"
    ELSE IF u \in HeadIds THEN "department_head"
    ELSE "anonymous"

CourseIds == {1, 2}
CourseInstructor(c) == IF c = 1 THEN 3 ELSE 4

CourseOf_AnyInstructor(c, u) == c \in CourseIds

\* get_object_or_404(Course, pk=course_id, instructor=request.user) and the
\* form's course queryset Course.objects.filter(instructor=instructor)
CourseOf(c, u) == c \in CourseIds /\ CourseInstructor(c) = u

valid_statuses == {"Present", "Absent", "Late"}

----------------------------------------------------------------------------
(* Parsing of request values *)

DigitChars == <<"0", "1", "2", "3", "4", "5", "6", "7", "8", "9">>
IsDigit(ch) == \E k \in 1..10 : DigitChars[k] = ch
DigitVal(ch) == (CHOOSE k \in 1..10 : DigitChars[k] = ch) - 1

\* int(student_id) on a string of characters: the base-10 value of a
\* non-empty digit string, ValueError otherwise
RECURSIVE ParseDigits(_, _)
ParseDigits(s, acc) ==
    IF s = <<>> THEN acc
    ELSE ParseDigits(Tail(s), acc * 10 + DigitVal(Head(s)))

ParseInt(s) ==
    IF s # <<>> /\ \A k \in 1..Len(s) : IsDigit(s[k])
    THEN [ok |-> TRUE, val |-> ParseDigits(s, 0)]
    ELSE [ok |-> FALSE, val |-> 0]

\* datetime.fromisoformat(...).date() with the strptime fallback: 0 when
\* neither parses
ParseDate(s) == IF s = "2024-03-01" THEN 1 ELSE 0

----------------------------------------------------------------------------
(* The Attendance table *)

NoneMsg == [none |-> TRUE, text |-> <<>>]
Msg(parts) == [none |-> FALSE, text |-> parts]

Enrolled(student, course) ==
    \E g \in grades : g.student = student /\ g.course = course

FullCleanOk_StatusOnly(student, course, status) == status \in valid_statuses

\* Attendance.save: full_clean (status choices, then clean's enrollment check)
FullCleanOk(student, course, status) ==
    status \in valid_statuses /\ Enrolled(student, course)

KeyRows_AnyDate(rows, student, course, date) ==
    {r \in rows : r.student = student /\ r.course = course}

\* the rows update_or_create looks up: student, course and date together
KeyRows(rows, student, course, date) ==
    {r \in rows : r.student = student /\ r.course = course /\ r.date = date}

update_or_create_AlwaysInsert(rows, student, course, date, status, storeFails) ==
    IF storeFails THEN [rows |-> rows, created |-> FALSE, exc |-> "IntegrityError"]
    ELSE IF ~FullCleanOk(student, course, status)
    THEN [rows |-> rows, created |-> FALSE, exc |-> "ValidationError"]
    ELSE [rows |-> rows \cup {[id |-> Cardinality(rows) + 1, student |-> student,
                               course |-> course, date |-> date, status |-> status]},
          created |-> TRUE, exc |-> ""]

update_or_create_KeepsStatus(rows, student, course, date, status, storeFails) ==
    LET existing == KeyRows(rows, student, course, date) IN
    IF storeFails THEN [rows |-> rows, created |-> FALSE, exc |-> "IntegrityError"]
    ELSE IF ~FullCleanOk(student, course, status)
    THEN [rows |-> rows, created |-> FALSE, exc |-> "ValidationError"]
    ELSE IF existing = {}
    THEN [rows |-> rows \cup {[id |-> Cardinality(rows) + 1, student |-> student,
                               course |-> course, date |-> date, status |-> status]},
          created |-> TRUE, exc |-> ""]
    ELSE [rows |-> rows, created |-> FALSE, exc |-> ""]

update_or_create_KeepsOld(rows, student, course, date, status, storeFails) ==
    LET existing == KeyRows(rows, student, course, date) IN
    IF storeFails THEN [rows |-> rows, created |-> FALSE, exc |-> "IntegrityError"]
    ELSE IF ~FullCleanOk(student, course, status)
    THEN [rows |-> rows, created |-> FALSE, exc |-> "ValidationError"]
    ELSE IF existing = {}
    THEN [rows |-> rows \cup {[id |-> Cardinality(rows) + 1, student |-> student,
                               course |-> course, date |-> date, status |-> status]},
          created |-> TRUE, exc |-> ""]
    ELSE [rows |-> rows \cup {[r EXCEPT !.status = status] : r \in existing},
          created |-> FALSE, exc |-> ""]

\* Attendance.objects.update_or_create(student, course, date, defaults={status}):
\* get the row of the key and save it with the new status, or insert a new row;
\* storeFails is an error raised by the store during the call
update_or_create(rows, student, course, date, status, storeFails) ==
    LET existing == KeyRows(rows, student, course, date) IN
    IF storeFails THEN [rows |-> rows, created |-> FALSE, exc |-> "IntegrityError"]
    ELSE IF Cardinality(existing) > 1
    THEN [rows |-> rows, created |-> FALSE, exc |-> "MultipleObjectsReturned"]
    ELSE IF ~FullCleanOk(student, course, status)
    THEN [rows |-> rows, created |-> FALSE, exc |-> "ValidationError"]
    ELSE IF existing = {}
    THEN [rows |-> rows \cup {[id |-> Cardinality(rows) + 1, student |-> student,
                               course |-> course, date |-> date, status |-> status]},
          created |-> TRUE, exc |-> ""]
    ELSE [rows |-> (rows \ existing) \cup
                   {[r EXCEPT !.status = status] : r \in existing},
          created |-> FALSE, exc |-> ""]

\* state of an open transaction.atomic() block over the Attendance table
TxBegin(rows) == [rows |-> rows, created |-> 0, updated |-> 0, exc |-> ""]

TxWrite_CountsCreated(tx, r) ==
    IF r.exc # "" THEN [tx EXCEPT !.exc = r.exc]
    ELSE [tx EXCEPT !.rows = r.rows, !.created = @ + 1]

TxWrite(tx, r) ==
    IF r.exc # "" THEN [tx EXCEPT !.exc = r.exc]
    ELSE [tx EXCEPT !.rows = r.rows,
                    !.created = IF r.created THEN @ + 1 ELSE @,
                    !.updated = IF r.created THEN @ ELSE @ + 1]

\* leaving the atomic block: commit, or roll back when an exception leaves it
TxEnd_KeepsPartial(pre, tx) == tx.rows

TxEnd(pre, tx) == IF tx.exc = "" THEN tx.rows ELSE pre

----------------------------------------------------------------------------
(* Requests *)

CourseInputs == {0, 1, 2, 3}
DateInputs == {"", "2024-03-01", "tomorrow"}
Methods == {"POST", "GET"}

\* entries of a submission: student 1 under its id "1" and under "01",
\* student 2, an instructor's id, an id that is no number, and a status
\* outside the valid ones
Entries ==
    {[id |-> <<"1">>, status |-> "Present"],
     [id |-> <<"0", "1">>, status |-> "Late"],
     [id |-> <<"2">>, status |-> "Present"],
     [id |-> <<"2">>, status |-> "Excused"],
     [id |-> <<"3">>, status |-> "Present"],
     [id |-> <<"x">>, status |-> "Present"]}

\* a JSON object / POST body: entries in order, no key twice
Payloads ==
    {b \in UNION {[1..n -> Entries] : n \in 0..MaxBatch} :
        \A i, j \in 1..Len(b) : i # j => b[i].id # b[j].id}

SamplePayload == <<[id |-> <<"1">>, status |-> "Present"]>>

Idle ==
    [op |-> "none", caller |-> Anonymous, method |-> "", wellFormed |-> TRUE,
     course |-> 0, dateStr |-> "", date |-> 0, hasData |-> FALSE,
     entered |-> FALSE, batch |-> <<>>, status |-> 0, to |-> "",
     success |-> "absent", msg |-> NoneMsg, created |-> 0, updated |-> 0,
     exc |-> "", dirty |-> FALSE, raised |-> FALSE]

----------------------------------------------------------------------------
(* sync_attendance_api *)

RECURSIVE SyncLoop_RaisesOnInvalid(_, _, _, _, _, _)
SyncLoop_RaisesOnInvalid(batch, i, course, date, failAt, tx) ==
    IF i > Len(batch) \/ tx.exc # "" THEN tx
    ELSE
        LET e == batch[i]
            p == ParseInt(e.id)
        IN  IF ~p.ok THEN SyncLoop_RaisesOnInvalid(batch, i + 1, course, date, failAt, tx)
            ELSE IF e.status \notin valid_statuses
            THEN [tx EXCEPT !.exc = "ValidationError"]
            ELSE IF Role(p.val) # "student"
            THEN SyncLoop_RaisesOnInvalid(batch, i + 1, course, date, failAt, tx)
            ELSE SyncLoop_RaisesOnInvalid(batch, i + 1, course, date, failAt,
                     TxWrite(tx, update_or_create(tx.rows, p.val, course, date,
                                                  e.status, failAt = i)))

\* the loop over attendance_data.items() inside transaction.atomic()
RECURSIVE SyncLoop(_, _, _, _, _, _)
SyncLoop(batch, i, course, date, failAt, tx) ==
    IF i > Len(batch) \/ tx.exc # "" THEN tx
    ELSE
        LET e == batch[i]
            p == ParseInt(e.id)
        IN  IF ~p.ok THEN SyncLoop(batch, i + 1, course, date, failAt, tx)
            ELSE IF e.status \notin valid_statuses
            THEN SyncLoop(batch, i + 1, course, date, failAt, tx)
            ELSE IF Role(p.val) # "student"
            THEN SyncLoop(batch, i + 1, course, date, failAt, tx)
            ELSE SyncLoop(batch, i + 1, course, date, failAt,
                     TxWrite(tx, update_or_create(tx.rows, p.val, course, date,
                                                  e.status, failAt = i)))

SyncFail(req, code, text) ==
    [req EXCEPT !.status = code, !.success = "false", !.msg = Msg(text)]

\* the handler: the response and the Attendance table it leaves
SyncResult(rows, caller, method, wellFormed, course, dateStr, batch, failAt) ==
    LET req == [Idle EXCEPT !.op = "sync", !.caller = caller, !.method = method,
                            !.wellFormed = wellFormed, !.course = course,
                            !.dateStr = dateStr, !.hasData = (batch # <<>>)]
        date == ParseDate(dateStr)
        tx == SyncLoop(batch, 1, course, date, failAt, TxBegin(rows))
    IN
    IF caller = Anonymous
    THEN [rows |-> rows, last |-> SyncFail(req, 401, <<"Authentication required">>)]
    ELSE IF Role(caller) # "instructor"
    THEN [rows |-> rows,
          last |-> SyncFail(req, 403, <<"Unauthorized - Instructor access required">>)]
    ELSE IF method # "POST"
    THEN [rows |-> rows,
          last |-> [req EXCEPT !.status = 405, !.msg = Msg(<<"Method not allowed">>)]]
    ELSE IF ~wellFormed
    THEN [rows |-> rows, last |-> SyncFail(req, 400, <<"Invalid JSON">>)]
    ELSE IF course = 0 \/ dateStr = "" \/ batch = <<>>
    THEN [rows |-> rows,
          last |-> SyncFail(req, 400,
                      <<"Missing required fields: course, date, attendance_data">>)]
    ELSE IF ~CourseOf(course, caller)
    THEN [rows |-> rows,
          last |-> [SyncFail(req, 500, <<"No Course matches the given query.">>)
                        EXCEPT !.exc = "Http404"]]
    ELSE IF date = 0
    THEN [rows |-> rows, last |-> SyncFail(req, 400, <<"Invalid date format">>)]
    ELSE IF tx.exc # ""
    THEN [rows |-> TxEnd(rows, tx),
          last |-> [SyncFail(req, 500, <<"Database error: ", tx.exc>>)
                        EXCEPT !.date = date, !.entered = TRUE, !.batch = batch,
                               !.exc = tx.exc, !.dirty = (tx.rows # rows)]]
    ELSE [rows |-> TxEnd(rows, tx),
          last |-> [req EXCEPT !.date = date, !.entered = TRUE, !.batch = batch,
                               !.status = 200, !.success = "true",
                               !.msg = Msg(<<"Synced ", tx.created + tx.updated,
                                             " records">>),
                               !.created = tx.created, !.updated = tx.updated]]

\* attendance_data is read in full only by a request that reaches the loop
SyncReachesLoop(caller, method, wellFormed, course, dateStr) ==
    /\ Role(caller) = "instructor"
    /\ method = "POST"
    /\ wellFormed
    /\ CourseOf(course, caller)
    /\ ParseDate(dateStr) # 0

\* the request body is read only by an instructor's well-formed POST
SyncReadsBody(caller, method, wellFormed) ==
    Role(caller) = "instructor" /\ method = "POST" /\ wellFormed

SyncAttendanceApi ==
    \E caller \in Callers, method \in Methods :
    \E wellFormed \in IF Role(caller) = "instructor" /\ method = "POST"
                       THEN BOOLEAN ELSE {TRUE} :
    \E course \in IF SyncReadsBody(caller, method, wellFormed)
                   THEN CourseInputs ELSE {0, 1} :
    \E dateStr \in IF SyncReadsBody(caller, method, wellFormed) THEN DateInputs
                    ELSE IF course = 0 THEN {""} ELSE {"2024-03-01"} :
      \E batch \in IF SyncReachesLoop(caller, method, wellFormed, course, dateStr)
                   THEN Payloads
                   ELSE IF SyncReadsBody(caller, method, wellFormed)
                   THEN {<<>>, SamplePayload}
                   ELSE IF course = 0 THEN {<<>>} ELSE {SamplePayload} :
        \E failAt \in {0, Len(batch)} :
          \E res \in {SyncResult(attendance, caller, method, wellFormed, course,
                                 dateStr, batch, failAt)} :
              /\ attendance' = res.rows
              /\ last' = res.last
              /\ UNCHANGED <<grades, auditLog, now>>

----------------------------------------------------------------------------
(* take_attendance and AttendanceForm.save_attendance *)

\* attendance_data[student_id] = value
DictSet(d, k, v) ==
    IF \E j \in 1..Len(d) : d[j].id = k
    THEN [j \in 1..Len(d) |-> IF d[j].id = k THEN [d[j] EXCEPT !.status = v] ELSE d[j]]
    ELSE Append(d, [id |-> k, status |-> v])

\* the student_<id> keys of request.POST turned into {int id: status}
RECURSIVE ExtractData(_, _)
ExtractData(post, d) ==
    IF post = <<>> THEN [ok |-> TRUE, data |-> d]
    ELSE LET p == ParseInt(Head(post).id)
         IN  IF ~p.ok THEN [ok |-> FALSE, data |-> d]
             ELSE ExtractData(Tail(post), DictSet(d, p.val, Head(post).status))

RECURSIVE SaveLoop_SkipsInvalid(_, _, _, _, _, _)
SaveLoop_SkipsInvalid(data, i, course, date, failAt, tx) ==
    IF i > Len(data) \/ tx.exc # "" THEN tx
    ELSE
        LET e == data[i]
        IN  IF Role(e.id) # "student" \/ e.status \notin valid_statuses
            THEN SaveLoop_SkipsInvalid(data, i + 1, course, date, failAt, tx)
            ELSE SaveLoop_SkipsInvalid(data, i + 1, course, date, failAt,
                     TxWrite(tx, update_or_create(tx.rows, e.id, course, date,
                                                  e.status, failAt = i)))

\* the loop of save_attendance inside transaction.atomic()
RECURSIVE SaveLoop(_, _, _, _, _, _)
SaveLoop(data, i, course, date, failAt, tx) ==
    IF i > Len(data) \/ tx.exc # "" THEN tx
    ELSE
        LET e == data[i]
        IN  IF Role(e.id) # "student" THEN [tx EXCEPT !.exc = "ValueError"]
            ELSE IF e.status \notin valid_statuses
            THEN [tx EXCEPT !.exc = "ValidationError"]
            ELSE SaveLoop(data, i + 1, course, date, failAt,
                     TxWrite(tx, update_or_create(tx.rows, e.id, course, date,
                                                  e.status, failAt = i)))

SaveCatches_OnlyValidation(exc) == exc \in {"ValueError", "ValidationError"}

\* except Exception: every exception class raised in the block is caught
SaveCatches(exc) == TRUE

\* save_attendance: (success, created_count, updated_count, error_message)
save_attendance(rows, course, date, data, failAt) ==
    LET tx == SaveLoop(data, 1, course, date, failAt, TxBegin(rows))
    IN  IF tx.exc = ""
        THEN [rows |-> TxEnd(rows, tx), success |-> "true", created |-> tx.created,
              updated |-> tx.updated, msg |-> NoneMsg, exc |-> "",
              dirty |-> FALSE, raised |-> FALSE]
        ELSE IF SaveCatches(tx.exc)
        THEN [rows |-> TxEnd(rows, tx), success |-> "false", created |-> tx.created,
              updated |-> tx.updated,
              msg |-> Msg(<<"Failed to save attendance: ", tx.exc>>),
              exc |-> tx.exc, dirty |-> (tx.rows # rows), raised |-> FALSE]
        ELSE [rows |-> TxEnd(rows, tx), success |-> "absent", created |-> 0,
              updated |-> 0, msg |-> NoneMsg, exc |-> tx.exc,
              dirty |-> (tx.rows # rows), raised |-> TRUE]

TakeResult(rows, caller, method, course, dateStr, post, failAt) ==
    LET req == [Idle EXCEPT !.op = "take", !.caller = caller, !.method = method,
                            !.course = course, !.dateStr = dateStr,
                            !.hasData = (post # <<>>)]
        date == ParseDate(dateStr)
        ext == ExtractData(post, <<>>)
        sv == save_attendance(rows, course, date, ext.data, failAt)
    IN
    IF caller = Anonymous
    THEN [rows |-> rows, last |-> [req EXCEPT !.status = 302, !.to = "login"]]
    ELSE IF Role(caller) # "instructor"
    THEN [rows |-> rows,
          last |-> [req EXCEPT !.status = 403, !.exc = "PermissionDenied"]]
    ELSE IF method # "POST"
    THEN [rows |-> rows, last |-> [req EXCEPT !.status = 200]]
    ELSE IF ~(CourseOf(course, caller) /\ date # 0)
    THEN [rows |-> rows,
          last |-> [req EXCEPT !.status = 200,
                               !.msg = Msg(<<"Please correct the errors below.">>)]]
    ELSE IF ~ext.ok
    THEN [rows |-> rows,
          last |-> [req EXCEPT !.date = date, !.status = 302, !.to = "take_attendance",
                               !.msg = Msg(<<"Invalid student ID">>)]]
    ELSE IF ext.data = <<>>
    THEN [rows |-> rows,
          last |-> [req EXCEPT !.date = date, !.status = 200,
                       !.msg = Msg(<<"Please select attendance status for at least one student.">>)]]
    ELSE [rows |-> sv.rows,
          last |-> [req EXCEPT !.date = date, !.entered = TRUE, !.batch = ext.data,
                               !.status = IF sv.raised THEN 500
                                          ELSE IF sv.success = "true" THEN 302 ELSE 200,
                               !.to = IF sv.success = "true" THEN "take_attendance" ELSE "",
                               !.success = sv.success, !.msg = sv.msg,
                               !.created = sv.created, !.updated = sv.updated,
                               !.exc = sv.exc, !.dirty = sv.dirty,
                               !.raised = sv.raised]]

TakeReachesSave(caller, method, course, dateStr) ==
    /\ Role(caller) = "instructor"
    /\ method = "POST"
    /\ CourseOf(course, caller)
    /\ ParseDate(dateStr) # 0

\* the form is bound to the request only for an instructor's POST
TakeReadsForm(caller, method) ==
    Role(caller) = "instructor" /\ method = "POST"

TakeAttendance ==
    \E caller \in Callers, method \in Methods :
    \E course \in IF TakeReadsForm(caller, method) THEN CourseInputs ELSE {0, 1} :
    \E dateStr \in IF TakeReadsForm(caller, method) THEN DateInputs
                    ELSE IF course = 0 THEN {""} ELSE {"2024-03-01"} :
      \E post \in IF TakeReachesSave(caller, method, course, dateStr)
                  THEN Payloads
                  ELSE IF course = 0 THEN {<<>>} ELSE {SamplePayload} :
        \E failAt \in {0, Len(post)} :
          \E res \in {TakeResult(attendance, caller, method, course, dateStr,
                                 post, failAt)} :
              /\ attendance' = res.rows
              /\ last' = res.last
              /\ UNCHANGED <<grades, auditLog, now>>

----------------------------------------------------------------------------
(* Specification of the attendance paths *)

GradeRow(id, student, course, lo, score, created, updated) ==
    [id |-> id, student |-> student, course |-> course, lo |-> lo,
     score |-> score, created_at |-> created, updated_at |-> updated]

\* the grades that enrol students before any attendance is taken: student 1
\* alone in course 1, both students in course 1, or student 1 in both courses
Enrollments == {{<<1, 1>>}, {<<1, 1>>, <<2, 1>>}, {<<1, 1>>, <<1, 2>>}}

RECURSIVE EnrollmentGrades(_, _)
EnrollmentGrades(pairs, n) ==
    IF pairs = {} THEN {}
    ELSE LET p == CHOOSE q \in pairs :
                    \A r \in pairs : q[1] * 10 + q[2] <= r[1] * 10 + r[2]
         IN  {GradeRow(n, p[1], p[2], p[2], 85, 0, 0)}
                 \cup EnrollmentGrades(pairs \ {p}, n + 1)

Init ==
    /\ attendance = {}
    /\ \E en \in Enrollments : grades = EnrollmentGrades(en, 1)
    /\ auditLog = <<>>
    /\ now = 0
    /\ last = Idle

Next == SyncAttendanceApi \/ TakeAttendance

Spec == Init /\ [][Next]_vars

----------------------------------------------------------------------------
(* Bulk attendance submission: what a handled batch says about itself *)

\* the student an entry names: int(key) in the sync path, the key itself in
\* the form path
StudentOf(l, i) ==
    IF l.op = "sync" THEN ParseInt(l.batch[i].id).val ELSE l.batch[i].id

\* the entry passes the per-entry validation of its path
EntryValid(l, i) ==
    /\ l.op = "sync" => ParseInt(l.batch[i].id).ok
    /\ Role(StudentOf(l, i)) = "student"
    /\ l.batch[i].status \in valid_statuses

ValidIdx(l) == {i \in 1..Len(l.batch) : EntryValid(l, i)}
ValidStudents(l) == {StudentOf(l, i) : i \in ValidIdx(l)}

\* the status of the last valid entry that names student s
FinalStatus(l, s) ==
    LET is == {i \in ValidIdx(l) : StudentOf(l, i) = s}
        m == CHOOSE i \in is : \A j \in is : j <= i
    IN  l.batch[m].status

Succeeded(l) == l.entered /\ l.success = "true"

SameKey(r1, r2) ==
    r1.student = r2.student /\ r1.course = r2.course /\ r1.date = r2.date

\* C1: when an error is raised while an entry of a batch is processed, in the
\* form path or in the sync path, the Attendance table after the call is the
\* table before the call, whatever the batch had written before the error
C1_RollbackOnError ==
    [][(last'.entered /\ last'.exc # "") => attendance' = attendance]_vars

\* a form batch whose second entry raised a store error after the first was
\* written, over a table that already held records
C1_Witness ==
    /\ last.op = "take" /\ last.entered
    /\ last.exc = "IntegrityError" /\ last.dirty
    /\ Len(last.batch) = 2
    /\ attendance # {}

\* C2: the table holds at most one record per (student, course, date)
C2_UniqueKey ==
    \A r1, r2 \in attendance : SameKey(r1, r2) => r1 = r2

\* a batch that updated an existing record to another status, with two
\* records in the table
C2_Witness ==
    /\ Succeeded(last) /\ last.updated >= 1
    /\ Cardinality(attendance) = 2
    /\ \E r \in attendance : r.id = 1 /\ r.status = "Late"

\* C3: a successful batch for the course, date and students of the successful
\* batch before it creates nothing, reports every valid entry as updated and
\* leaves the row count unchanged; with the same statuses it leaves the table
\* unchanged
C3_ResubmitIdempotent ==
    [][(/\ Succeeded(last) /\ Succeeded(last')
        /\ last'.course = last.course /\ last'.date = last.date
        /\ ValidStudents(last') = ValidStudents(last))
       => /\ last'.created = 0
          /\ last'.updated = Cardinality(ValidIdx(last'))
          /\ Cardinality(attendance') = Cardinality(attendance)
          /\ (\A s \in ValidStudents(last') :
                  FinalStatus(last', s) = FinalStatus(last, s))
             => attendance' = attendance]_vars

\* a batch of two students that found both records in place with the statuses
\* it submits
C3_Witness ==
    /\ Succeeded(last) /\ last.created = 0 /\ last.updated = 2
    /\ Cardinality(ValidStudents(last)) = 2
    /\ \A s \in ValidStudents(last) :
          \E r \in attendance : r.student = s /\ r.status = FinalStatus(last, s)

\* C4 as claimed: after a successful batch every valid entry (s, v) has its
\* record (s, course, date) with status v
C4_EveryEntryStored ==
    Succeeded(last) =>
        \A i \in ValidIdx(last) :
            \E r \in attendance :
                /\ r.student = StudentOf(last, i)
                /\ r.course = last.course /\ r.date = last.date
                /\ r.status = last.batch[i].status

\* C4 amended: after a successful batch every student of a valid entry has
\* exactly one record (s, course, date); its status is that of the last valid
\* entry naming s; it is the record that existed before, overwritten in place,
\* or a new record when none existed
C4_UpsertLastWins ==
    [][Succeeded(last') =>
         \A s \in ValidStudents(last') :
            LET old == KeyRows(attendance, s, last'.course, last'.date)
                new == KeyRows(attendance', s, last'.course, last'.date)
            IN  /\ Cardinality(new) = 1
                /\ \A r \in new : r.status = FinalStatus(last', s)
                /\ old # {} => {r.id : r \in new} = {r.id : r \in old}
                /\ old = {} => \A r \in new : \A q \in attendance : q.id # r.id]_vars

\* a sync batch naming student 1 twice, as "1" and as "01", with two statuses
C4_Witness ==
    /\ Succeeded(last) /\ last.op = "sync"
    /\ \E i, j \in ValidIdx(last) :
          /\ i < j /\ StudentOf(last, i) = StudentOf(last, j)
          /\ last.batch[i].status # last.batch[j].status
    /\ \E r \in attendance : r.student = 1 /\ r.status = "Late"

\* the key of valid entry i existed when the entry was processed: in the
\* table before the call, or written by an earlier entry of the batch
ExistedWhenProcessed(rows, l, i) ==
    \/ KeyRows(rows, StudentOf(l, i), l.course, l.date) # {}
    \/ \E j \in ValidIdx(l) : j < i /\ StudentOf(l, j) = StudentOf(l, i)

\* C5: a successful batch returns created = the rows it added, updated = the
\* valid entries whose key existed when processed, and created + updated =
\* the entries that passed validation
C5_Counts ==
    [][Succeeded(last') =>
         /\ last'.created = Cardinality(attendance') - Cardinality(attendance)
         /\ last'.updated =
               Cardinality({i \in ValidIdx(last') :
                               ExistedWhenProcessed(attendance, last', i)})
         /\ last'.created + last'.updated = Cardinality(ValidIdx(last'))]_vars

\* a batch that created one record and updated another
C5_Witness ==
    /\ Succeeded(last) /\ last.created = 1 /\ last.updated = 1
    /\ Cardinality(ValidStudents(last)) = 2

\* C6: a form batch with an entry whose student is no student or whose status
\* is not valid fails as a whole and leaves the table as it was
C6_FormRejectsWhole ==
    [][(/\ last'.op = "take" /\ last'.entered
        /\ \E i \in 1..Len(last'.batch) : ~EntryValid(last', i))
       => /\ last'.success = "false"
          /\ attendance' = attendance]_vars

\* a form batch whose first entry was written and whose second entry has an
\* invalid status
C6_Witness ==
    /\ last.op = "take" /\ last.entered /\ Len(last.batch) = 2
    /\ EntryValid(last, 1) /\ ~EntryValid(last, 2)
    /\ last.dirty /\ last.success = "false"

C8_FailureClasses ==
    last.op = "sync" =>
        /\ last.caller = Anonymous => last.status = 401
        /\ (last.caller # Anonymous /\ Role(last.caller) # "instructor")
              => last.status = 403
        /\ (/\ Role(last.caller) = "instructor" /\ last.method = "POST"
            /\ last.wellFormed
            /\ (last.course = 0 \/ last.dateStr = "" \/ ~last.hasData))
              => last.status = 400
        /\ (last.entered /\ last.exc # "") => last.status = 500
        /\ last.status # 200 => (last.success = "false" /\ ~last.msg.none)

----------------------------------------------------------------------------
(* Grades and the grade audit report *)

None == -1
ScoreInputs == {50, 90}
GradeKeys == StudentIds \X CourseIds

\* the learning outcome graded in a course
CourseLO(c) == c

\* Grade.objects.create(...): auto_now_add and auto_now stamp the row
CreateGrade ==
    \E k \in GradeKeys, score \in ScoreInputs :
        /\ Cardinality(grades) < MaxGrades
        /\ score >= 0 /\ score <= 100
        /\ ~\E g \in grades :
              g.student = k[1] /\ g.course = k[2] /\ g.lo = CourseLO(k[2])
        /\ grades' = grades \cup
              {GradeRow(Cardinality(grades) + 1, k[1], k[2], CourseLO(k[2]),
                        score, now, now)}
        /\ UNCHANGED <<attendance, auditLog, now, last>>

UpdateGrade_TouchesCreated ==
    \E g \in grades, score \in ScoreInputs :
        /\ score # g.score
        /\ grades' = (grades \ {g}) \cup
              {[g EXCEPT !.score = score, !.created_at = now, !.updated_at = now]}
        /\ UNCHANGED <<attendance, auditLog, now, last>>

\* grade.score = score; grade.save(): auto_now stamps updated_at only
UpdateGrade ==
    \E g \in grades, score \in ScoreInputs :
        /\ score # g.score
        /\ grades' = (grades \ {g}) \cup
              {[g EXCEPT !.score = score, !.updated_at = now]}
        /\ UNCHANGED <<attendance, auditLog, now, last>>

Tick ==
    /\ now < MaxTime
    /\ now' = now + 1
    /\ UNCHANGED <<attendance, grades, auditLog, last>>

\* order_by('course__code', 'student__username', 'learning_outcome__code')
GradeBefore(g, h) ==
    \/ g.course < h.course
    \/ g.course = h.course /\ g.student < h.student
    \/ g.course = h.course /\ g.student = h.student /\ g.lo <= h.lo

RECURSIVE OrderGrades(_)
OrderGrades(gs) ==
    IF gs = {} THEN <<>>
    ELSE LET g == CHOOSE x \in gs : \A y \in gs : GradeBefore(x, y)
         IN  <<g>> \o OrderGrades(gs \ {g})

RECURSIVE SumScores(_)
SumScores(seq) ==
    IF seq = <<>> THEN 0 ELSE Head(seq).score + SumScores(Tail(seq))

\* round(avg_score, 2), in hundredths, ties to the even hundredth
Round2(num, den) ==
    LET q == (num * 100) \div den
        r == (num * 100) % den
    IN  IF 2 * r > den \/ (2 * r = den /\ q % 2 = 1) THEN q + 1 ELSE q

SnapshotFilter_Strict(g, snapshot_time) == g.created_at < snapshot_time

SnapshotFilter_ByUpdated(g, snapshot_time) == g.updated_at <= snapshot_time

SnapshotFilter_All(g, snapshot_time) == TRUE

\* Grade.objects.filter(created_at__lte=snapshot_time)
SnapshotFilter(g, snapshot_time) == g.created_at <= snapshot_time

\* if course_filter: .filter(course_id=course_filter)
CourseFilter(g, course_filter) ==
    (course_filter # None /\ course_filter # 0) => g.course = course_filter

\* if date_range: .filter(created_at__gte=start_date, created_at__lte=end_date)
RangeFilter(g, date_range) ==
    date_range # <<>> =>
        (g.created_at >= date_range[1] /\ g.created_at <= date_range[2])

\* a lookup against None raises ValueError("Cannot use None as a query value")
RangeRaises(date_range) ==
    date_range # <<>> /\ (date_range[1] = None \/ date_range[2] = None)

IsoFormat(t) == IF t = None THEN <<"null">> ELSE <<"iso", t>>

FiltersApplied(course_filter, date_range) ==
    [course_id |-> IF course_filter # None /\ course_filter # 0
                   THEN <<course_filter>> ELSE <<>>,
     date_range |-> IF date_range # <<>>
                    THEN <<[start |-> IsoFormat(date_range[1]),
                            end |-> IsoFormat(date_range[2])]>>
                    ELSE <<>>]

NoReport ==
    [op |-> "report", caller |-> Anonymous, snapshot_in |-> None,
     course_filter |-> None, date_range |-> <<>>, exc |-> "",
     snapshot_time |-> None, grades |-> <<>>, audit_log |-> 0,
     total_grades |-> 0, total_students |-> 0, total_courses |-> 0,
     average_score |-> 0, began |-> {}]

GradeAuditLog_create_Replaces(log, row) == <<row>>

GradeAuditLog_create_Drops(log, row) == log

\* GradeAuditLog.objects.create(...): one more row, the others untouched
GradeAuditLog_create(log, row) == Append(log, row)

\* generate_grade_audit_report(user, snapshot_time, course_filter, date_range):
\* the value returned or the exception raised, and the audit log it leaves;
\* logFails is an error raised by the store when the log row is inserted
ReportResult(user, snapshot_in, course_filter, date_range, logFails) ==
    LET req == [NoReport EXCEPT !.caller = user, !.snapshot_in = snapshot_in,
                                !.course_filter = course_filter,
                                !.date_range = date_range]
        snapshot_time == IF snapshot_in = None THEN now ELSE snapshot_in
        grades_list ==
            OrderGrades({g \in grades : /\ SnapshotFilter(g, snapshot_time)
                                        /\ CourseFilter(g, course_filter)
                                        /\ RangeFilter(g, date_range)})
        total_grades == Len(grades_list)
        row == [id |-> Len(auditLog) + 1, accessed_by |-> user,
                snapshot_time |-> snapshot_time, accessed_at |-> now,
                report_type |-> "grade_audit",
                filters_applied |-> FiltersApplied(course_filter, date_range),
                records_count |-> total_grades]
    IN
    IF Role(user) # "department_head"
    THEN [log |-> auditLog, last |-> [req EXCEPT !.exc = "PermissionError"]]
    ELSE IF RangeRaises(date_range)
    THEN [log |-> auditLog,
          last |-> [req EXCEPT !.exc = "ValueError",
                               !.snapshot_time = snapshot_time]]
    ELSE IF logFails
    THEN [log |-> auditLog,
          last |-> [req EXCEPT !.exc = "DatabaseError",
                               !.snapshot_time = snapshot_time]]
    ELSE [log |-> GradeAuditLog_create(auditLog, row),
          last |-> [req EXCEPT
                      !.snapshot_time = snapshot_time,
                      !.grades = grades_list,
                      !.audit_log = row.id,
                      !.total_grades = total_grades,
                      !.total_students =
                          Cardinality({grades_list[i].student : i \in 1..total_grades}),
                      !.total_courses =
                          Cardinality({grades_list[i].course : i \in 1..total_grades}),
                      !.average_score =
                          IF total_grades > 0
                          THEN Round2(SumScores(grades_list), total_grades)
                          ELSE 0]]

SnapshotInputs == {None} \cup 0..MaxTime
CourseFilterInputs == {None, 1}
DateRangeInputs == {<<>>, <<0, 1>>, <<1, None>>, <<None, 1>>}
ReportCallers == {3, 5}

\* the arguments after user are read only for a department head, and the
\* log row is written only when the query did not raise
GenerateReport ==
    \E user \in ReportCallers :
    \E snapshot_in \in IF Role(user) = "department_head" THEN SnapshotInputs
                        ELSE {None, 0} :
    \E course_filter \in IF Role(user) = "department_head" THEN CourseFilterInputs
                          ELSE {None} :
    \E date_range \in IF Role(user) = "department_head" THEN DateRangeInputs
                       ELSE {<<>>} :
    \E logFails \in IF Role(user) = "department_head" /\ date_range = <<>>
                        /\ course_filter = None
                     THEN BOOLEAN ELSE {FALSE} :
        /\ Len(auditLog) < MaxReports
        /\ LET res == ReportResult(user, snapshot_in, course_filter, date_range,
                                   logFails)
           IN  /\ auditLog' = res.log
               /\ last' = res.last
        /\ UNCHANGED <<attendance, grades, now>>

InitAudit ==
    /\ attendance = {}
    /\ grades = {}
    /\ auditLog = <<>>
    /\ now = 0
    /\ last = NoReport

NextAudit == CreateGrade \/ UpdateGrade \/ Tick \/ GenerateReport

SpecAudit == InitAudit /\ [][NextAudit]_vars

Returned(l) == l.op = "report" /\ l.exc = "" /\ l.audit_log # 0

\* C10: the report a department head gets back holds, when it is generated,
\* exactly the stored grades created at or before its snapshot time (the
\* current time when none is given) that satisfy the course filter and the
\* creation-time range
C10_ReportIsSnapshot ==
    [][(auditLog' # auditLog /\ Returned(last')) =>
        LET T == IF last'.snapshot_in = None THEN now ELSE last'.snapshot_in
            got == {last'.grades[i] : i \in 1..Len(last'.grades)}
        IN  /\ last'.snapshot_time = T
            /\ Cardinality(got) = Len(last'.grades)
            /\ got \subseteq grades
            /\ \A g \in got : g.created_at <= T
            /\ \A g \in grades :
                  (/\ g.created_at <= T
                   /\ (last'.course_filter # None =>
                          g.course = last'.course_filter)
                   /\ (last'.date_range # <<>> =>
                          /\ last'.date_range[1] <= g.created_at
                          /\ g.created_at <= last'.date_range[2]))
                  <=> g \in got]_vars

\* a report at a past snapshot time with a course filter that returned one
\* grade while the store holds a grade created after the snapshot time
C10_Witness ==
    /\ Returned(last) /\ last.snapshot_in # None /\ last.course_filter = 1
    /\ Len(last.grades) = 1
    /\ \E g \in grades : g.created_at > last.snapshot_in /\ g.course = 1

----------------------------------------------------------------------------
(* Several reports at explicit snapshot times, and the audit history *)

MaxSnapshots == 2

\* generate_grade_audit_report(user, snapshot_time=t) as the time-travel
\* callers use it: an explicit snapshot time and no filter
TimeTravelReport ==
    \E user \in ReportCallers :
    \E snapshot_in \in IF Role(user) = "department_head" THEN 0..MaxTime
                        ELSE {0} :
    \E logFails \in IF Role(user) = "department_head" THEN BOOLEAN ELSE {FALSE} :
        /\ Len(auditLog) < MaxSnapshots
        /\ \E res \in {ReportResult(user, snapshot_in, None, <<>>, logFails)} :
               /\ auditLog' = res.log
               /\ last' = res.last
        /\ UNCHANGED <<attendance, grades, now>>

\* order_by('-accessed_at'): rows in an order that never puts an earlier
\* access before a later one; rows accessed at the same time come in any order
NewestFirst(seq) ==
    \A i, j \in 1..Len(seq) : i < j => seq[i].accessed_at >= seq[j].accessed_at

HistoryOrders(rows) ==
    {seq \in [1..Cardinality(rows) -> rows] :
        /\ \A i, j \in 1..Cardinality(rows) : i # j => seq[i] # seq[j]
        /\ NewestFirst(seq)}

LimitInputs == {1, 10}

\* [:limit]
Limit(seq, limit) == SubSeq(seq, 1, IF Len(seq) < limit THEN Len(seq) ELSE limit)

\* get_historical_snapshots(user, limit)
GetHistoricalSnapshots ==
    \E user \in ReportCallers :
    \E limit \in IF Role(user) = "department_head" THEN LimitInputs ELSE {10} :
        /\ IF Role(user) # "department_head"
           THEN last' = [op |-> "history", caller |-> user, limit |-> limit,
                         exc |-> "PermissionError", rows |-> <<>>]
           ELSE \E seq \in HistoryOrders({auditLog[i] : i \in
                              {k \in 1..Len(auditLog) : auditLog[k].accessed_by = user}}) :
                    last' = [op |-> "history", caller |-> user, limit |-> limit,
                             exc |-> "", rows |-> Limit(seq, limit)]
        /\ UNCHANGED <<attendance, grades, auditLog, now>>

NextSnapshots == CreateGrade \/ UpdateGrade \/ Tick \/ TimeTravelReport

SpecSnapshots == InitAudit /\ [][NextSnapshots]_vars

NextHistory ==
    CreateGrade \/ Tick \/ TimeTravelReport \/ GetHistoricalSnapshots

SpecHistory == InitAudit /\ [][NextHistory]_vars

\* the ids of the grades a returned report lists
ReportIds(l) == {l.grades[i].id : i \in 1..Len(l.grades)}

\* an unfiltered report that was generated after its snapshot time had passed
PastSnapshot(log, l) ==
    /\ Returned(l) /\ l.course_filter = None /\ l.date_range = <<>>
    /\ l.snapshot_time < log[l.audit_log].accessed_at

\* what two reports r1 (at T1) and r2 (at T2 > T1) say about the grades of store
SnapshotPair(log, store, r1, r2) ==
    LET T1 == r1.snapshot_time
        T2 == r2.snapshot_time
    IN  (PastSnapshot(log, r1) /\ PastSnapshot(log, r2) /\ T1 < T2) =>
            /\ ReportIds(r1) \subseteq ReportIds(r2)
            /\ \A g \in store :
                  /\ (g.created_at <= T1 /\ T1 < g.updated_at /\ g.updated_at <= T2)
                        => (g.id \in ReportIds(r1) /\ g.id \in ReportIds(r2))
                  /\ (T1 < g.created_at /\ g.created_at <= T2)
                        => (g.id \in ReportIds(r2) /\ g.id \notin ReportIds(r1))
            /\ r1.total_grades = Cardinality({g \in store : g.created_at <= T1})
            /\ log[r1.audit_log].records_count = r1.total_grades

\* C11: of two reports at snapshot times T1 < T2, each generated after its
\* snapshot time, both list a grade created by T1 and updated between T1 and
\* T2, and only the T2 report lists or counts a grade created after T1 and by
\* T2, in whichever order the two reports are generated
C11_SnapshotPair ==
    [][(Returned(last) /\ Returned(last') /\ auditLog' # auditLog) =>
          /\ SnapshotPair(auditLog', grades, last, last')
          /\ SnapshotPair(auditLog', grades, last', last)]_vars

\* the T1 report generated after the T2 report, while the store holds a grade
\* updated between T1 and T2 and a grade created between T1 and T2
C11_Witness ==
    /\ Len(auditLog) = 2 /\ PastSnapshot(auditLog, last) /\ last.audit_log = 2
    /\ auditLog[1].snapshot_time > last.snapshot_time
    /\ auditLog[1].snapshot_time < auditLog[1].accessed_at
    /\ auditLog[1].records_count = 2 /\ last.total_grades = 1
    /\ \E g \in grades :
          /\ g.created_at <= last.snapshot_time
          /\ last.snapshot_time < g.updated_at
          /\ g.updated_at <= auditLog[1].snapshot_time
    /\ \E g \in grades :
          /\ last.snapshot_time < g.created_at
          /\ g.created_at <= auditLog[1].snapshot_time

----------------------------------------------------------------------------
(* One report generation taken step by step, with grade writers in between *)

\* lines 35-45: the permission check, snapshot_time defaults to the clock and
\* the atomic block is entered, which reads nothing yet; began keeps the Grade
\* table of that moment for comparison with what the report later returns
ReportBegin ==
    \E user \in ReportCallers :
    \E snapshot_in \in IF Role(user) = "department_head" THEN SnapshotInputs
                        ELSE {None} :
        /\ Len(auditLog) < MaxReports
        /\ last.op \notin {"begun", "read"}
        /\ last' = IF Role(user) # "department_head"
                   THEN [NoReport EXCEPT !.caller = user,
                                         !.snapshot_in = snapshot_in,
                                         !.exc = "PermissionError"]
                   ELSE [NoReport EXCEPT !.op = "begun", !.caller = user,
                                         !.began = grades,
                                         !.snapshot_in = snapshot_in,
                                         !.snapshot_time =
                                             IF snapshot_in = None THEN now
                                             ELSE snapshot_in]
        /\ UNCHANGED <<attendance, grades, auditLog, now>>

\* lines 49-73: the query is materialised and the statistics are computed
ReportRead ==
    /\ last.op = "begun"
    /\ LET grades_list ==
               OrderGrades({g \in grades : SnapshotFilter(g, last.snapshot_time)})
           total_grades == Len(grades_list)
       IN  last' = [last EXCEPT
                       !.op = "read",
                       !.grades = grades_list,
                       !.total_grades = total_grades,
                       !.total_students =
                           Cardinality({grades_list[i].student : i \in 1..total_grades}),
                       !.total_courses =
                           Cardinality({grades_list[i].course : i \in 1..total_grades}),
                       !.average_score =
                           IF total_grades > 0
                           THEN Round2(SumScores(grades_list), total_grades)
                           ELSE 0]
    /\ UNCHANGED <<attendance, grades, auditLog, now>>

RecordsCount_Requery(l, store) ==
    Cardinality({g \in store : SnapshotFilter(g, l.snapshot_time)})

\* records_count=total_grades
RecordsCount(l, store) == l.total_grades

\* lines 76-103: the audit-log row is created and the report is returned, or
\* the insert fails and the exception leaves the function
ReportLog ==
    \E logFails \in BOOLEAN :
        /\ last.op = "read"
        /\ IF logFails
           THEN /\ auditLog' = auditLog
                /\ last' = [NoReport EXCEPT !.caller = last.caller,
                                            !.snapshot_in = last.snapshot_in,
                                            !.snapshot_time = last.snapshot_time,
                                            !.exc = "DatabaseError"]
           ELSE /\ auditLog' = GradeAuditLog_create(auditLog,
                       [id |-> Len(auditLog) + 1, accessed_by |-> last.caller,
                        snapshot_time |-> last.snapshot_time, accessed_at |-> now,
                        report_type |-> "grade_audit",
                        filters_applied |-> FiltersApplied(None, <<>>),
                        records_count |-> RecordsCount(last, grades)])
                /\ last' = [last EXCEPT !.op = "report",
                                        !.audit_log = Len(auditLog) + 1]
        /\ UNCHANGED <<attendance, grades, now>>

NextInterleaved ==
    CreateGrade \/ UpdateGrade \/ Tick \/ ReportBegin \/ ReportRead \/ ReportLog

SpecInterleaved == InitAudit /\ [][NextInterleaved]_vars

\* C12: whatever grade inserts and score updates happen while a report is
\* being generated, the audit-log row of a returned report has records_count
\* equal to the length of the returned grade list and to summary.total_grades,
\* snapshot_time equal to the report's snapshot time and accessed_by equal to
\* the caller
C12_LogMatchesReport ==
    Returned(last) =>
        /\ last.audit_log \in 1..Len(auditLog)
        /\ auditLog[last.audit_log].records_count = Len(last.grades)
        /\ auditLog[last.audit_log].records_count = last.total_grades
        /\ auditLog[last.audit_log].snapshot_time = last.snapshot_time
        /\ auditLog[last.audit_log].accessed_by = last.caller

\* a returned report that misses a grade of its snapshot that was inserted
\* after the read and before the log row was written
C12_Witness ==
    /\ Returned(last)
    /\ \E g \in grades :
          /\ g.created_at <= last.snapshot_time
          /\ g.created_at < auditLog[last.audit_log].accessed_at
          /\ g.id \notin ReportIds(last)

\* C13: a caller who is not a department head gets a permission error from
\* generate_grade_audit_report and from get_historical_snapshots, with no
\* grade data and no audit-log rows in the result, and the call leaves the
\* grades and the audit log as they were
C13_RejectsUnprivileged ==
    [][(last' # last /\ last'.caller \notin HeadIds) =>
          /\ last'.exc = "PermissionError"
          /\ auditLog' = auditLog
          /\ grades' = grades
          /\ last'.op = "report" =>
                /\ last'.grades = <<>> /\ last'.audit_log = 0
                /\ last'.snapshot_time = None /\ last'.total_grades = 0
          /\ last'.op = "history" => last'.rows = <<>>]_vars

\* an instructor was refused a report while the store holds grades and the
\* audit log holds a row
C13_Witness ==
    /\ last.op = "report" /\ last.caller \in InstructorIds
    /\ last.exc = "PermissionError"
    /\ grades # {} /\ Len(auditLog) = 1

\* C14: every step leaves the rows already in the audit log as they are; a
\* report that returns adds exactly one row, the one it returns, numbered by
\* the count of reports returned so far; a report that raises adds none; and
\* nothing but a returned report adds a row
C14_AppendOnly ==
    [][/\ \/ auditLog' = auditLog
          \/ /\ Len(auditLog') = Len(auditLog) + 1
             /\ SubSeq(auditLog', 1, Len(auditLog)) = auditLog
       /\ auditLog' # auditLog => (Returned(last') /\ last' # last)
       /\ (last' # last /\ last'.op = "report") =>
             IF Returned(last')
             THEN /\ Len(auditLog') = Len(auditLog) + 1
                  /\ last'.audit_log = Len(auditLog')
                  /\ auditLog'[Len(auditLog')].id = Len(auditLog')
             ELSE auditLog' = auditLog]_vars

\* a second report has returned and the log holds its row after the row of
\* the first report, which has another snapshot time and another count
C14_Witness ==
    /\ Returned(last) /\ last.audit_log = 2 /\ Len(auditLog) = 2
    /\ auditLog[1].id = 1 /\ auditLog[2].id = 2
    /\ auditLog[1].snapshot_time # auditLog[2].snapshot_time
    /\ auditLog[1].records_count # auditLog[2].records_count

\* C15 as claimed: two consecutive returned reports with the same snapshot
\* time and the same filters list the same grades and count the same number
\* of records, whatever grades were inserted between the two calls
C15_Deterministic ==
    [][(/\ Returned(last) /\ Returned(last') /\ auditLog' # auditLog
        /\ last'.snapshot_time = last.snapshot_time
        /\ last'.course_filter = last.course_filter
        /\ last'.date_range = last.date_range) =>
          /\ ReportIds(last') = ReportIds(last)
          /\ last'.total_grades = last.total_grades
          /\ auditLog'[last'.audit_log].records_count =
                 auditLog'[last.audit_log].records_count]_vars

----------------------------------------------------------------------------
(* Grade entry *)

\* the learning outcomes: 1 and 3 belong to course 1, 2 to course 2
LOIds == {1, 2, 3}

\* LearningOutcome.course
LOCourse(lo) == IF lo = 3 THEN 1 ELSE lo

\* GradeEntryForm.__init__: the choices of the three select fields; with an
\* instructor the learning_outcome field starts from LearningOutcome.objects.none()
CourseQueryset(instructor) == {c \in CourseIds : CourseInstructor(c) = instructor}
StudentQueryset(instructor) == {u \in UserIds : Role(u) = "student"}
LearningOutcomeQueryset(instructor) == {}

\* form.is_valid(): the field errors, then the errors of clean(), which runs
\* its checks only when the three choices were all accepted
FormErrors(store, instructor, course, student, lo, score) ==
    LET fieldErrors ==
            (IF course \in CourseQueryset(instructor) THEN {} ELSE {"course"})
            \cup (IF student \in StudentQueryset(instructor) THEN {} ELSE {"student"})
            \cup (IF lo \in LearningOutcomeQueryset(instructor) THEN {}
                  ELSE {"learning_outcome"})
            \cup (IF score >= 0 /\ score <= 100 THEN {} ELSE {"score"})
        chosen == {"course", "student", "learning_outcome"} \cap fieldErrors = {}
        existing == \E g \in store :
                        g.student = student /\ g.course = course /\ g.lo = lo
    IN  fieldErrors
        \cup (IF chosen /\ existing THEN {"A grade already exists"}
              ELSE IF chosen /\ LOCourse(lo) # course
              THEN {"Learning Outcome does not belong to course"}
              ELSE {})

EnterCallers == {Anonymous, 1, 3}
EnterCourseInputs == {1, 2}
EnterStudentInputs == {1, 3}
EnterScoreInputs == {90, 101}

NoEntry ==
    [op |-> "enter_grade", caller |-> Anonymous, method |-> "GET", course |-> 0,
     student |-> 0, lo |-> 0, score |-> 0, exc |-> "", errors |-> {},
     response |-> "form", saved |-> 0]

\* enter_grade(request): @login_required sends an anonymous request to the
\* login page; the form fields are read on a POST by an instructor
EnterGrade ==
    \E caller \in EnterCallers :
    \E method \in IF Role(caller) = "instructor" THEN {"GET", "POST"} ELSE {"GET"} :
    \E course \in IF method = "POST" THEN EnterCourseInputs ELSE {0} :
    \E student \in IF method = "POST" THEN EnterStudentInputs ELSE {0} :
    \E lo \in IF method = "POST" THEN LOIds ELSE {0} :
    \E score \in IF method = "POST" THEN EnterScoreInputs ELSE {0} :
    \E req \in {[NoEntry EXCEPT !.caller = caller, !.method = method,
                                !.course = course, !.student = student,
                                !.lo = lo, !.score = score]} :
    \E errors \in {FormErrors(grades, caller, course, student, lo, score)} :
        /\ IF caller = Anonymous
           THEN /\ last' = [req EXCEPT !.response = "login"]
                /\ grades' = grades
           ELSE IF Role(caller) # "instructor"
           THEN /\ last' = [req EXCEPT !.exc = "PermissionDenied", !.response = "403"]
                /\ grades' = grades
           ELSE IF method # "POST"
           THEN /\ last' = req
                /\ grades' = grades
           ELSE IF errors # {}
           THEN /\ last' = [req EXCEPT !.errors = errors]
                /\ grades' = grades
           ELSE /\ Cardinality(grades) < MaxGrades
                /\ grades' = grades \cup
                      {GradeRow(Cardinality(grades) + 1, student, course, lo,
                                score, now, now)}
                /\ last' = [req EXCEPT !.response = "redirect",
                                       !.saved = Cardinality(grades) + 1]
        /\ UNCHANGED <<attendance, auditLog, now>>

NextGrades == CreateGrade \/ UpdateGrade \/ Tick \/ EnterGrade

SpecGrades == InitAudit /\ [][NextGrades]_vars

\* C17 as claimed: a grade submitted through grade entry by the course's
\* instructor for a (student, course, learning_outcome) key that already has
\* a Grade leaves exactly one Grade for the key, the same row, with the
\* submitted score
C17_ResubmitUpdates ==
    [][(/\ last' # last /\ last'.op = "enter_grade" /\ last'.method = "POST"
        /\ last'.course \in CourseQueryset(last'.caller)
        /\ LOCourse(last'.lo) = last'.course
        /\ last'.score >= 0 /\ last'.score <= 100
        /\ \E g \in grades : /\ g.student = last'.student
                             /\ g.course = last'.course /\ g.lo = last'.lo) =>
          \A g \in grades :
              (g.student = last'.student /\ g.course = last'.course
                  /\ g.lo = last'.lo) =>
                  {h \in grades' : /\ h.student = g.student /\ h.course = g.course
                                    /\ h.lo = g.lo} =
                      {[g EXCEPT !.score = last'.score,
                                 !.updated_at = IF last'.score = g.score
                                                THEN g.updated_at ELSE now]}]_vars

\* C18: a new Grade gets created_at and updated_at equal to the time of its
\* insertion; no later step changes a row's created_at; a score update sets
\* updated_at to the time of the update and changes no other row; updated_at
\* is never earlier than created_at; and the grades selected by
\* created_at <= T are the same before and after a score update, for every T
C18_CreatedAtImmutable ==
    [][/\ \A g \in grades : \E h \in grades' :
             /\ h.id = g.id /\ h.created_at = g.created_at
             /\ h.student = g.student /\ h.course = g.course /\ h.lo = g.lo
             /\ h.updated_at >= g.updated_at
             /\ h # g => (h.score # g.score /\ h.updated_at = now)
       /\ \A h \in grades' :
             /\ h.updated_at >= h.created_at
             /\ (~\E g \in grades : g.id = h.id) =>
                   (h.created_at = now /\ h.updated_at = now)
       /\ {g.id : g \in grades'} = {g.id : g \in grades} =>
             \A T \in 0..MaxTime :
                 {g.id : g \in {x \in grades' : SnapshotFilter(x, T)}} =
                 {g.id : g \in {x \in grades : SnapshotFilter(x, T)}}]_vars

\* a grade whose score was updated after the time of its insertion
C18_Witness ==
    \E g \in grades : g.updated_at > g.created_at /\ g.created_at < now

----------------------------------------------------------------------------
(* Program Outcome scores.  Scores are kept in hundredths of a point. *)

MaxRows == 2

POIds == {1, 2}

\* the Grade tables the functions are applied to: up to MaxRows grades of the
\* students for learning outcomes of their courses
ScoredKeys == StudentIds \X LOIds

KeyRank(k) == (k[1] - 1) * Cardinality(LOIds) + k[2]

GradeTables ==
    UNION {{ {GradeRow(Cardinality({j \in K : KeyRank(j) <= KeyRank(k)}),
                       k[1], LOCourse(k[2]), k[2], f[k], 0, 0) : k \in K}
             : f \in [K -> ScoreInputs]}
           : K \in {X \in SUBSET ScoredKeys : Cardinality(X) <= MaxRows}}

\* the ContributionRate tables: a percentage, or no row, for each edge LO->PO
RateChoices ==
    [{<<1, 1>>, <<2, 1>>, <<3, 1>>, <<1, 2>>} -> {None, 0, 40, 100}]

RateTables ==
    {{[lo |-> e[1], po |-> e[2], percentage |-> f[e]] :
          e \in {x \in DOMAIN f : f[x] # None}} :
       f \in {h \in RateChoices :
                 /\ h[<<1, 1>>] # 0 /\ h[<<2, 1>>] \in {None, 40}
                 /\ h[<<3, 1>>] \in {None, 100} /\ h[<<1, 2>>] # 100}}

Min(a, b) == IF a < b THEN a ELSE b

\* grades.filter(learning_outcome=lo).first(): the row with the lowest pk
FirstGrade(gs, lo) ==
    CHOOSE g \in gs : g.lo = lo /\ \A h \in gs : h.lo = lo => g.id <= h.id

\* the loop over contribution_rates: po_score += grade.score * weight and
\* total_weight += weight, for the rates whose learning outcome is graded
RECURSIVE RateLoop(_, _)
RateLoop(crs, gs) ==
    IF crs = {} THEN [po_score |-> 0, total_weight |-> 0]
    ELSE LET cr == CHOOSE x \in crs : TRUE
             rest == RateLoop(crs \ {cr}, gs)
         IN  IF \E g \in gs : g.lo = cr.lo
             THEN [po_score |-> rest.po_score
                                  + FirstGrade(gs, cr.lo).score * cr.percentage,
                   total_weight |-> rest.total_weight + cr.percentage]
             ELSE rest

FinalScore_Normalized(po_score, total_weight) ==
    IF total_weight > 0 THEN Min((po_score * 100) \div total_weight, 10000) ELSE 0

\* final_score = min(po_score, 100) if total_weight > 0 else 0
FinalScore(po_score, total_weight) ==
    IF total_weight > 0 THEN Min(po_score, 10000) ELSE 0

\* calculate_po_scores(student)
calculate_po_scores(student, store, rates) ==
    IF Role(student) # "student" THEN <<>>
    ELSE LET gs == {g \in store : g.student = student}
         IN  [po \in POIds |->
                 LET acc == RateLoop({cr \in rates : cr.po = po}, gs)
                 IN  Round2(FinalScore(acc.po_score, acc.total_weight), 100)]

PoCallers == {1, 3}

CalculatePoScores ==
    \E student \in PoCallers :
    \E rates \in IF Role(student) = "student" THEN RateTables ELSE {{}} :
        /\ last' = [op |-> "po_scores", student |-> student, rates |-> rates,
                    result |-> calculate_po_scores(student, grades, rates)]
        /\ UNCHANGED <<attendance, grades, auditLog, now>>

\* student_scores[student][code] += value, on defaultdicts: a missing key
\* starts from 0.0
AddTo(scores, key, value) ==
    [k \in DOMAIN scores \cup {key} |->
        (IF k \in DOMAIN scores THEN scores[k] ELSE 0)
        + (IF k = key THEN value ELSE 0)]

\* for cr in contribution_rates: student_scores[cr.program_outcome.code] +=
\* grade.score * weight
RECURSIVE AddRates(_, _, _)
AddRates(scores, grade, crs) ==
    IF crs = {} THEN scores
    ELSE LET cr == CHOOSE x \in crs : TRUE
         IN  AddRates(AddTo(scores, <<grade.student, cr.po>>,
                            grade.score * cr.percentage),
                      grade, crs \ {cr})

\* for grade in grades_queryset, for the grades of one course
RECURSIVE GradeLoop(_, _)
GradeLoop(gs, rates) ==
    IF gs = {} THEN <<>>
    ELSE LET grade == CHOOSE g \in gs : TRUE
         IN  AddRates(GradeLoop(gs \ {grade}, rates), grade,
                      {cr \in rates : cr.lo = grade.lo})

RECURSIVE SumCapped(_, _)
SumCapped(scores, keys) ==
    IF keys = {} THEN 0
    ELSE LET k == CHOOSE x \in keys : TRUE
         IN  Min(scores[k], 10000) + SumCapped(scores, keys \ {k})

Contributors_AllInCourse(scores, gs, code) == {<<g.student, code>> : g \in gs}

\* aggregated[code]: one value for every student whose scores hold the code
Contributors(scores, gs, code) == {k \in DOMAIN scores : k[2] = code}

SumPresent(scores, keys) == SumCapped(scores, keys \cap DOMAIN scores)

\* po_scores of one course: round(sum(values) / len(values), 2) for the
\* codes whose list of values is not empty
CoursePoScores(gs, rates) ==
    LET scores == GradeLoop(gs, rates)
    IN  [code \in {k[2] : k \in DOMAIN scores} |->
            Round2(SumPresent(scores, Contributors(scores, gs, code)),
                   100 * Cardinality(Contributors(scores, gs, code)))]

\* results.sort(key=lambda item: item['course'].code)
RECURSIVE SortCourses(_)
SortCourses(cs) ==
    IF cs = {} THEN <<>>
    ELSE LET c == CHOOSE x \in cs : \A y \in cs : x <= y
         IN  <<c>> \o SortCourses(cs \ {c})

\* _aggregate_course_po_scores(grades_queryset)
aggregate_course_po_scores(qs, rates) ==
    LET order == SortCourses({g.course : g \in qs})
    IN  [i \in 1..Len(order) |->
            [course |-> order[i],
             po_scores |-> CoursePoScores({g \in qs : g.course = order[i]}, rates)]]

\* Grade.objects.all(), or the grades of the courses of one instructor
ScopeInputs == {0, 3}

GradesQueryset(store, scope) ==
    IF scope = 0 THEN store
    ELSE {g \in store : CourseInstructor(g.course) = scope}

\* calculate_department_course_po_scores(),
\* calculate_instructor_course_po_scores(instructor)
AggregateCoursePoScores ==
    \E scope \in ScopeInputs, rates \in RateTables :
        /\ last' = [op |-> "course_po", scope |-> scope, rates |-> rates,
                    result |-> aggregate_course_po_scores(
                                   GradesQueryset(grades, scope), rates)]
        /\ UNCHANGED <<attendance, grades, auditLog, now>>

InitOutcomes ==
    /\ attendance = {}
    /\ grades \in GradeTables
    /\ auditLog = <<>>
    /\ now = 0
    /\ last = [op |-> "none"]

NextOutcomes == CalculatePoScores \/ AggregateCoursePoScores

SpecOutcomes == InitOutcomes /\ [][NextOutcomes]_vars

\* what one graded learning outcome adds to a Program Outcome for a student,
\* in hundredths: score * percentage when the edge lo->po exists and the
\* student has a grade for lo in gs, and nothing otherwise
Contribution(gs, rates, student, lo, po) ==
    IF /\ \E cr \in rates : cr.lo = lo /\ cr.po = po
       /\ \E g \in gs : g.student = student /\ g.lo = lo
    THEN (CHOOSE g \in gs : g.student = student /\ g.lo = lo).score
         * (CHOOSE cr \in rates : cr.lo = lo /\ cr.po = po).percentage
    ELSE 0

WeightedSum(gs, rates, student, po) ==
    Contribution(gs, rates, student, 1, po)
    + Contribution(gs, rates, student, 2, po)
    + Contribution(gs, rates, student, 3, po)

\* C19: for a student calculate_po_scores gives, for every Program Outcome,
\* min(100, sum of score * percentage / 100 over the edges whose learning
\* outcome the student has a grade for), not divided by the total weight,
\* within [0, 100], 0 when the student has no grade and 0 for an outcome
\* without edges; for a user who is not a student it gives the empty mapping
C19_WeightedSum ==
    last.op = "po_scores" =>
        IF Role(last.student) # "student" THEN last.result = <<>>
        ELSE /\ DOMAIN last.result = POIds
             /\ \A po \in POIds :
                   /\ last.result[po] =
                          Min(10000, WeightedSum(grades, last.rates, last.student, po))
                   /\ last.result[po] >= 0 /\ last.result[po] <= 10000
                   /\ (~\E g \in grades : g.student = last.student)
                         => last.result[po] = 0
                   /\ (~\E cr \in last.rates : cr.po = po) => last.result[po] = 0

\* a student whose contributions to outcome 1 add up to more than 100 and
\* were capped, while outcome 2 got 20 points from one 40% edge
C19_Witness ==
    /\ last.op = "po_scores" /\ Role(last.student) = "student"
    /\ WeightedSum(grades, last.rates, last.student, 1) > 10000
    /\ last.result[1] = 10000
    /\ last.result[2] = 2000

\* the students of course c in qs with a graded learning outcome that has an
\* edge to po
Contributing(qs, rates, c, po) ==
    {s \in StudentIds :
        \E g \in qs : /\ g.course = c /\ g.student = s
                      /\ \E cr \in rates : cr.lo = g.lo /\ cr.po = po}

CappedSum(qs, rates, c, po, s) ==
    IF s \in Contributing(qs, rates, c, po)
    THEN Min(10000, WeightedSum({g \in qs : g.course = c}, rates, s, po))
    ELSE 0

----------------------------------------------------------------------------
(* Attendance percentages.  Percentages are kept in tenths of a percent. *)

MaxRecords == 4

\* the lists of attendance records the function is given, by their statuses
RECURSIVE StatusLists(_)
StatusLists(n) ==
    IF n = 0 THEN {<<>>}
    ELSE LET shorter == StatusLists(n - 1)
         IN  shorter \cup {Append(seq, st) : seq \in shorter, st \in valid_statuses}

AttendanceInputs == {<<"None">>} \cup {<<"list", seq>> : seq \in StatusLists(MaxRecords)}

\* sum(1 for att in attendances if att.status == status)
RECURSIVE CountStatus(_, _)
CountStatus(seq, status) ==
    IF seq = <<>> THEN 0
    ELSE (IF Head(seq) = status THEN 1 ELSE 0) + CountStatus(Tail(seq), status)

\* round(percentage, 1) of num / den, in tenths, ties to the even tenth
Round1(num, den) ==
    LET q == (num * 10) \div den
        r == (num * 10) % den
    IN  IF 2 * r > den \/ (2 * r = den /\ q % 2 = 1) THEN q + 1 ELSE q

Credit_LateFull(present_count, late_count) == 2 * present_count + 2 * late_count

\* present_count + 0.5 * late_count, in halves
Credit(present_count, late_count) == 2 * present_count + late_count

\* calculate_attendance_percentage(attendances)
calculate_attendance_percentage(attendances) ==
    IF attendances = <<"None">> \/ attendances[2] = <<>> THEN 0
    ELSE LET total == Len(attendances[2])
             present_count == CountStatus(attendances[2], "Present")
             late_count == CountStatus(attendances[2], "Late")
         IN  Round1(Credit(present_count, late_count) * 100, 2 * total)

\* student_attendance: round((present_count + late_count) / total_records * 100, 1)
overall_attendance_percentage(present_count, late_count, total_records) ==
    IF total_records > 0
    THEN Round1((present_count + late_count) * 100, total_records)
    ELSE 0

CalculateAttendancePercentage ==
    \E attendances \in AttendanceInputs :
        /\ last' = [op |-> "percentage", attendances |-> attendances,
                    result |-> calculate_attendance_percentage(attendances)]
        /\ UNCHANGED <<attendance, grades, auditLog, now>>

NextPercentage == CalculateAttendancePercentage

SpecPercentage == InitAudit /\ [][NextPercentage]_vars

Records(l) == IF l.attendances = <<"None">> THEN <<>> ELSE l.attendances[2]

----------------------------------------------------------------------------
(* Role-restricted views *)

Views ==
    {"instructor_dashboard", "student_dashboard", "student_attendance",
     "head_dashboard", "attendance_dashboard", "grade_audit_report"}

RequiredRole_AllInstructor(view) == "instructor"

\* the role named by the first statement of each view
RequiredRole(view) ==
    IF view = "instructor_dashboard" THEN "instructor"
    ELSE IF view \in {"student_dashboard", "student_attendance"} THEN "student"
    ELSE "department_head"

\* @login_required, then the role check: the view's body runs only on "ok"
ViewGate(view, caller) ==
    IF caller = Anonymous THEN "login"
    ELSE IF Role(caller) # RequiredRole(view) THEN "403"
    ELSE "ok"

NoData == [grades |-> {}, attendance |-> {}, snapshots |-> <<>>]

NoView ==
    [op |-> "view", view |-> "", caller |-> Anonymous, status |-> 0, to |-> "",
     exc |-> "", reads |-> {}, shown |-> NoData, report |-> NoReport]

\* the response of a view whose body queries the tables in reads and renders
\* the rows in shown
ViewResponse(view, caller, reads, shown) ==
    LET req == [NoView EXCEPT !.view = view, !.caller = caller]
        gate == ViewGate(view, caller)
    IN  IF gate = "login" THEN [req EXCEPT !.status = 302, !.to = "login"]
        ELSE IF gate = "403"
        THEN [req EXCEPT !.status = 403, !.exc = "PermissionDenied"]
        ELSE [req EXCEPT !.status = 200, !.reads = reads, !.shown = shown]

\* instructor_dashboard: the grades of the courses taught by the instructor
InstructorDashboard ==
    \E caller \in Callers :
        /\ last' = ViewResponse("instructor_dashboard", caller, {"grades"},
                       [NoData EXCEPT !.grades =
                           {g \in grades : CourseOf(g.course, caller)}])
        /\ UNCHANGED <<attendance, grades, auditLog, now>>

\* student_dashboard: the student's grades
StudentDashboard ==
    \E caller \in Callers :
        /\ last' = ViewResponse("student_dashboard", caller, {"grades"},
                       [NoData EXCEPT !.grades =
                           {g \in grades : g.student = caller}])
        /\ UNCHANGED <<attendance, grades, auditLog, now>>

\* student_attendance: the student's attendance records
StudentAttendance ==
    \E caller \in Callers :
        /\ last' = ViewResponse("student_attendance", caller, {"attendance"},
                       [NoData EXCEPT !.attendance =
                           {r \in attendance : r.student = caller}])
        /\ UNCHANGED <<attendance, grades, auditLog, now>>

\* head_dashboard: the department averages, computed from every grade
HeadDashboard ==
    \E caller \in Callers :
        /\ last' = ViewResponse("head_dashboard", caller, {"grades"},
                       [NoData EXCEPT !.grades = grades])
        /\ UNCHANGED <<attendance, grades, auditLog, now>>

\* attendance_dashboard: the course averages, computed from every record
AttendanceDashboard ==
    \E caller \in Callers :
        /\ last' = ViewResponse("attendance_dashboard", caller, {"attendance"},
                       [NoData EXCEPT !.attendance = attendance])
        /\ UNCHANGED <<attendance, grades, auditLog, now>>

\* date_range as grade_audit_report builds it from start_date and end_date:
\* None when both are absent, else the pair with None for the absent one
ViewDateRange(start_date, end_date) ==
    IF start_date = None /\ end_date = None THEN <<>>
    ELSE <<start_date, end_date>>

StartDateInputs == {None, 0}
EndDateInputs == {None, 1}

\* grade_audit_report: the report of generate_grade_audit_report, then the
\* newest snapshots; an exception other than PermissionError leaves the view
GradeAuditReportView ==
    \E caller \in Callers :
    \E start_date \in IF ViewGate("grade_audit_report", caller) = "ok"
                       THEN StartDateInputs ELSE {None} :
    \E end_date \in IF ViewGate("grade_audit_report", caller) = "ok"
                     THEN EndDateInputs ELSE {None} :
    \E logFails \in IF ViewGate("grade_audit_report", caller) = "ok"
                       /\ ~RangeRaises(ViewDateRange(start_date, end_date))
                     THEN BOOLEAN ELSE {FALSE} :
    \E res \in {ReportResult(caller, None, None,
                             ViewDateRange(start_date, end_date), logFails)} :
    \E seq \in HistoryOrders({res.log[i] : i \in
                   {k \in 1..Len(res.log) : res.log[k].accessed_by = caller}}) :
    \E resp \in {ViewResponse("grade_audit_report", caller,
                              {"grades", "auditLog"},
                              [NoData EXCEPT !.grades = {res.last.grades[i] :
                                                 i \in 1..Len(res.last.grades)},
                                             !.snapshots = Limit(seq, 20)])} :
        /\ resp.status = 200 => Len(auditLog) < MaxReports
        /\ IF resp.status # 200
           THEN /\ last' = resp
                /\ auditLog' = auditLog
           ELSE IF res.last.exc = "PermissionError"
           THEN /\ last' = [resp EXCEPT !.status = 403, !.exc = "PermissionDenied",
                                        !.reads = {}, !.shown = NoData]
                /\ auditLog' = auditLog
           ELSE IF res.last.exc # ""
           THEN /\ last' = [resp EXCEPT !.status = 500, !.exc = res.last.exc,
                                        !.reads = {"grades"}, !.shown = NoData,
                                        !.report = res.last]
                /\ auditLog' = res.log
           ELSE /\ last' = [resp EXCEPT !.report = res.last]
                /\ auditLog' = res.log
        /\ UNCHANGED <<attendance, grades, now>>

NextViews ==
    \/ InstructorDashboard
    \/ StudentDashboard
    \/ StudentAttendance
    \/ HeadDashboard
    \/ AttendanceDashboard
    \/ GradeAuditReportView
    \/ TakeAttendance
    \/ EnterGrade

SpecViews == Init /\ [][NextViews]_vars

\* the users a role-restricted view admits
C22_Admitted(view) ==
    IF view = "instructor_dashboard" THEN InstructorIds
    ELSE IF view \in {"student_dashboard", "student_attendance"} THEN StudentIds
    ELSE HeadIds

\* the stores no rejected request may touch
C22_Untouched == UNCHANGED <<attendance, grades, auditLog>>

\* C22: every role-restricted view (instructor dashboard, grade entry and
\* take_attendance for instructors; student dashboard and student_attendance
\* for students; head dashboard, grade_audit_report and attendance dashboard
\* for department heads) answers an authenticated user of another role with
\* 403 and an unauthenticated request with a redirect to the login page, and
\* in both cases it has queried no table, renders no grade, attendance or
\* audit-log row, and leaves the three stores as they were
C22_RoleGate ==
    [][LET l == last'
       IN  /\ (l.op = "view" /\ l.caller \notin C22_Admitted(l.view)) =>
                 /\ IF l.caller = Anonymous
                    THEN l.status = 302 /\ l.to = "login"
                    ELSE l.status = 403
                 /\ l.reads = {} /\ l.shown = NoData /\ l.report = NoReport
                 /\ C22_Untouched
           /\ (l.op = "take" /\ l.caller \notin InstructorIds) =>
                 /\ IF l.caller = Anonymous
                    THEN l.status = 302 /\ l.to = "login"
                    ELSE l.status = 403
                 /\ ~l.entered /\ l.batch = <<>> /\ l.msg = NoneMsg
                 /\ C22_Untouched
           /\ (l.op = "enter_grade" /\ l.caller \notin InstructorIds) =>
                 /\ l.response = IF l.caller = Anonymous THEN "login" ELSE "403"
                 /\ l.saved = 0 /\ l.errors = {}
                 /\ C22_Untouched]_vars

\* an instructor was refused the grade audit report while grades, attendance
\* records of a student and an audit-log row were all there to be read
C22_Witness ==
    /\ last.op = "view" /\ last.view = "grade_audit_report"
    /\ last.caller \in InstructorIds /\ last.status = 403
    /\ grades # {} /\ attendance # {} /\ Len(auditLog) > 0

----------------------------------------------------------------------------
(* Attendance.save *)

SaveStatusInputs == valid_statuses \cup {"Excused"}

\* Attendance.objects.update_or_create(...) called on its own: the model's
\* save() validates the record before the row is written
AttendanceSave ==
    \E student \in StudentIds, course \in CourseIds, status \in SaveStatusInputs :
    \E res \in {update_or_create(attendance, student, course, 1, status, FALSE)} :
        /\ attendance' = res.rows
        /\ last' = [op |-> "save", student |-> student, course |-> course,
                    date |-> 1, status |-> status, exc |-> res.exc,
                    created |-> res.created]
        /\ UNCHANGED <<grades, auditLog, now>>

NextAttendance == AttendanceSave \/ CreateGrade

SpecAttendance == Init /\ [][NextAttendance]_vars

----------------------------------------------------------------------------
(* Score updates committed while a report is being generated *)

\* C24 as claimed: a score update committed while a report's transaction is
\* open is not seen by the report: every grade the report holds after its
\* query, and returns, carries the score the grade had when the report began
C24_ScoreAtBegin ==
    last.op \in {"read", "report"} =>
        \A i \in 1..Len(last.grades) :
            \A g \in last.began :
                g.id = last.grades[i].id => last.grades[i].score = g.score

----------------------------------------------------------------------------
(* Two bulk attendance submissions running concurrently *)

\* The Attendance table is the table as the database holds it, the rows
\* written by open transactions included; a row written by an open transaction
\* stays locked until that transaction commits or rolls back.

Submitters == {1, 2}

Other(t) == 3 - t

\* the entries of the two submissions: course 1, date 1, the first submission
\* marks students Present and the second marks them Absent
ConcurrentBatches(t) ==
    {b \in UNION {[1..n -> [id : StudentIds,
                            status : {IF t = 1 THEN "Present" ELSE "Absent"}]] :
                     n \in 1..MaxBatch} :
        \A i, j \in 1..Len(b) : i # j => b[i].id # b[j].id}

\* one submission: its entries, the next entry, the rows it replaced (undo),
\* the students whose rows it has written, and how it stands
NoSubmission ==
    [batch |-> <<>>, i |-> 1, undo |-> {}, written |-> {}, state |-> "none",
     exc |-> ""]

Open(tx) == tx.state = "open"

\* the key of the next entry is locked by the other open transaction
Blocked_Never(txs, t) == FALSE

\* a row written inside a transaction is locked until the transaction ends:
\* update_or_create on its key waits in any other transaction
Blocked(txs, t) ==
    /\ Open(txs[Other(t)])
    /\ txs[t].i <= Len(txs[t].batch)
    /\ txs[t].batch[txs[t].i].id \in txs[Other(t)].written

\* rollback of an open transaction: its rows are removed and the rows it
\* replaced are put back
Rollback(rows, tx) ==
    {r \in rows : ~(r.student \in tx.written /\ r.course = 1 /\ r.date = 1)}
        \cup tx.undo

\* two requests enter transaction.atomic() for course 1 and date 1
SubmitConcurrently ==
    \E b1 \in ConcurrentBatches(1), b2 \in ConcurrentBatches(2) :
        /\ last.op = "concurrent" =>
               \A t \in Submitters : ~Open(last.txs[t])
        /\ last' = [op |-> "concurrent", pre |-> attendance,
                    txs |-> [t \in Submitters |->
                                [NoSubmission EXCEPT
                                    !.batch = IF t = 1 THEN b1 ELSE b2,
                                    !.state = "open"]]]
        /\ UNCHANGED <<attendance, grades, auditLog, now>>

\* one pass of the loop in one of the two transactions: update_or_create for
\* the next entry, or the exception it raises, which rolls the transaction back
BulkStep ==
    \E t \in Submitters :
        /\ last.op = "concurrent"
        /\ Open(last.txs[t])
        /\ last.txs[t].i <= Len(last.txs[t].batch)
        /\ ~Blocked(last.txs, t)
        /\ LET tx == last.txs[t]
               e == tx.batch[tx.i]
               res == update_or_create(attendance, e.id, 1, 1, e.status, FALSE)
               old == KeyRows(attendance, e.id, 1, 1)
           IN  IF res.exc # ""
               THEN /\ attendance' = Rollback(attendance, tx)
                    /\ last' = [last EXCEPT !.txs[t].state = "rolled back",
                                            !.txs[t].exc = res.exc]
               ELSE /\ attendance' = res.rows
                    /\ last' = [last EXCEPT
                                   !.txs[t].i = @ + 1,
                                   !.txs[t].written = @ \cup {e.id},
                                   !.txs[t].undo =
                                       IF e.id \in tx.written THEN @
                                       ELSE @ \cup old]
        /\ UNCHANGED <<grades, auditLog, now>>

\* a transaction that waits for a lock is ended by the database (deadlock
\* victim, lock timeout, busy database): OperationalError rolls it back
BulkAbort ==
    \E t \in Submitters :
        /\ last.op = "concurrent"
        /\ Open(last.txs[t])
        /\ Blocked(last.txs, t)
        /\ attendance' = Rollback(attendance, last.txs[t])
        /\ last' = [last EXCEPT !.txs[t].state = "rolled back",
                                !.txs[t].exc = "OperationalError"]
        /\ UNCHANGED <<grades, auditLog, now>>

\* the loop is over: the atomic block is left and the transaction commits
BulkCommit ==
    \E t \in Submitters :
        /\ last.op = "concurrent"
        /\ Open(last.txs[t])
        /\ last.txs[t].i > Len(last.txs[t].batch)
        /\ last' = [last EXCEPT !.txs[t].state = "committed"]
        /\ UNCHANGED <<attendance, grades, auditLog, now>>

NextConcurrent == SubmitConcurrently \/ BulkStep \/ BulkAbort \/ BulkCommit

SpecConcurrent == Init /\ [][NextConcurrent]_vars

\* a whole batch applied on its own, entry by entry
RECURSIVE ApplyBatch(_, _)
ApplyBatch(rows, batch) ==
    IF batch = <<>> THEN rows
    ELSE ApplyBatch(update_or_create(rows, Head(batch).id, 1, 1,
                                     Head(batch).status, FALSE).rows,
                    Tail(batch))

\* what a table says: the status of each (student, course, date)
Statuses(rows) == {<<r.student, r.course, r.date, r.status>> : r \in rows}

Finished(l) == l.op = "concurrent" /\ \A t \in Submitters : ~Open(l.txs[t])

Committed(l) == {t \in Submitters : l.txs[t].state = "committed"}

\* C25: when two bulk submissions for the same course and date with
\* overlapping students have both ended, whatever the interleaving of their
\* entries, the table holds one record for each submitted key of a committed
\* submission and none twice, and its statuses are those of running the
\* committed submissions whole, one after the other in some order, on the
\* table as it was before: a rolled-back submission has left nothing and no
\* outcome mixes the two batches key by key
C25_Serializable ==
    Finished(last) =>
        /\ \A s \in StudentIds : Cardinality(KeyRows(attendance, s, 1, 1)) <= 1
        /\ \A t \in Committed(last) : \A i \in 1..Len(last.txs[t].batch) :
               Cardinality(KeyRows(attendance, last.txs[t].batch[i].id, 1, 1)) = 1
        /\ Statuses(attendance) \in
               IF Committed(last) = {} THEN {Statuses(last.pre)}
               ELSE IF Committed(last) = Submitters
               THEN {Statuses(ApplyBatch(ApplyBatch(last.pre, last.txs[1].batch),
                                         last.txs[2].batch)),
                     Statuses(ApplyBatch(ApplyBatch(last.pre, last.txs[2].batch),
                                         last.txs[1].batch))}
               ELSE {Statuses(ApplyBatch(last.pre,
                        last.txs[CHOOSE t \in Submitters :
                                     t \in Committed(last)].batch))}

\* the two submissions named both students in opposite orders, each wrote its
\* first entry and then waited for the other: one was rolled back by the
\* database after it had written a row, and the other committed
C25_Witness ==
    /\ Finished(last)
    /\ Len(last.txs[1].batch) = 2 /\ Len(last.txs[2].batch) = 2
    /\ last.txs[1].batch[1].id = last.txs[2].batch[2].id
    /\ \E t \in Submitters :
          /\ last.txs[t].state = "rolled back"
          /\ last.txs[t].exc = "OperationalError"
          /\ last.txs[t].written # {}
          /\ last.txs[Other(t)].state = "committed"
          /\ last.txs[Other(t)].undo # {}

----------------------------------------------------------------------------
(* Batches that name a student who is not enrolled *)

\* entry i has a valid status and names an existing student who has no Grade
\* in the course of the request
Unenrolled(l, i) == EntryValid(l, i) /\ ~Enrolled(StudentOf(l, i), l.course)

----------------------------------------------------------------------------
(* Courses of other instructors *)

\* the request is an instructor's POST that names a course which does not
\* exist or which another instructor teaches
ForeignCourse(l) ==
    /\ l.op \in {"sync", "take"}
    /\ l.caller \in InstructorIds /\ l.method = "POST"
    /\ l.course # 0
    /\ ~(l.course \in CourseIds /\ CourseInstructor(l.course) = l.caller)

\* C27: a sync_attendance_api or take_attendance request that names a course
\* which does not exist or whose instructor is another user is answered with a
\* failure before any entry is processed and leaves the Attendance table as it
\* was; every record a request creates or modifies belongs to a course whose
\* instructor is the requester
C27_OwnCourseOnly ==
    [][LET l == last'
       IN  /\ ForeignCourse(l) =>
                 /\ ~l.entered
                 /\ IF l.op = "sync"
                    THEN l.success = "false" /\ l.status \in {400, 500}
                    ELSE /\ l.success = "absent" /\ l.status = 200
                         /\ l.msg = Msg(<<"Please correct the errors below.">>)
                 /\ attendance' = attendance
           /\ l.op \in {"sync", "take"} =>
                 \A r \in attendance' \ attendance :
                     /\ r.course \in CourseIds
                     /\ CourseInstructor(r.course) = l.caller]_vars

\* an instructor named the course of another instructor, in which a student
\* is enrolled, with a well-formed batch for that student: 500 from the sync
\* path, and the table still holds only the record of the instructor's own
\* course
C27_Witness ==
    /\ ForeignCourse(last) /\ last.op = "sync" /\ last.course = 2
    /\ last.hasData /\ last.dateStr = "2024-03-01"
    /\ last.status = 500 /\ last.exc = "Http404"
    /\ \E g \in grades : g.course = 2
    /\ attendance # {}
    /\ \A r \in attendance : r.course = 1

----------------------------------------------------------------------------
(* Bulk submissions on a table that already holds other records *)

\* records written earlier: student 1 in course 1 on another date, student 1
\* in the course of the other instructor, student 2 in course 1 on the date
\* of the requests
EarlierRecords ==
    {[student |-> 1, course |-> 1, date |-> 2, status |-> "Present"],
     [student |-> 1, course |-> 2, date |-> 1, status |-> "Late"],
     [student |-> 2, course |-> 1, date |-> 1, status |-> "Absent"]}

\* the rows of a set of records, with ids in the order of student, course, date
RECURSIVE NumberRows(_, _)
NumberRows(recs, n) ==
    IF recs = {} THEN {}
    ELSE LET r == CHOOSE q \in recs : \A p \in recs :
                      q.student * 100 + q.course * 10 + q.date
                          <= p.student * 100 + p.course * 10 + p.date
         IN  {[id |-> n, student |-> r.student, course |-> r.course,
               date |-> r.date, status |-> r.status]}
                 \cup NumberRows(recs \ {r}, n + 1)

\* a table of earlier records, each for a student enrolled in its course
InitPopulated ==
    /\ \E en \in Enrollments :
          /\ grades = EnrollmentGrades(en, 1)
          /\ \E recs \in SUBSET {r \in EarlierRecords :
                                    <<r.student, r.course>> \in en} :
                attendance = NumberRows(recs, 1)
    /\ auditLog = <<>>
    /\ now = 0
    /\ last = Idle

SpecPopulated == InitPopulated /\ [][Next]_vars

\* C28: a successful bulk submission for course C and date D with valid
\* entries for the students S leaves every record of another student, another
\* course or another date exactly as it was, creates records only for keys
\* (s, C, D) with s in S, deletes no record (every row is still there under
\* its id and key), and changes no Grade and no audit-log row
C28_Frame ==
    [][LET l == last'
       IN  (l.op \in {"sync", "take"} /\ Succeeded(l)) =>
             /\ \A r \in attendance :
                   (\/ r.student \notin ValidStudents(l)
                    \/ r.course # l.course
                    \/ r.date # l.date) => r \in attendance'
             /\ \A r \in attendance' \ attendance :
                   /\ r.student \in ValidStudents(l)
                   /\ r.course = l.course /\ r.date = l.date
             /\ \A r \in attendance :
                   \E q \in attendance' : q.id = r.id /\ SameKey(q, r)
             /\ grades' = grades /\ auditLog' = auditLog]_vars

\* a submission for student 1 in course 1 succeeded on a table that held a
\* record of student 1 on another date and a record of student 1 in another
\* course
C28_Witness ==
    /\ last.op \in {"sync", "take"} /\ Succeeded(last)
    /\ ValidStudents(last) = {1} /\ last.course = 1 /\ last.date = 1
    /\ \E r \in attendance : r.student = 1 /\ r.course = 1 /\ r.date = 1
    /\ \E r \in attendance : r.student = 1 /\ r.course = 1 /\ r.date = 2
    /\ \E r \in attendance : r.student = 1 /\ r.course = 2

----------------------------------------------------------------------------
(* The audit-log row of a report *)

\* the step is a call of generate_grade_audit_report
ReportStep == last'.op = "report" /\ (last' # last \/ auditLog' # auditLog)

\* C29: generate_grade_audit_report hands grade data to its caller only with
\* a persisted audit-log row for the access: a returned report references a
\* row that is in the log after the call, written by the call for this caller
\* and snapshot time; a call that raises, the failure of the log insert
\* included, returns no grades and no summary and leaves the log as it was;
\* and no call changes the Grade table
C29_LoggedOrNothing ==
    [][ReportStep =>
        LET l == last'
        IN  /\ grades' = grades
            /\ IF l.exc = ""
               THEN /\ l.audit_log \in 1..Len(auditLog')
                    /\ l.audit_log \notin 1..Len(auditLog)
                    /\ auditLog'[l.audit_log].id = l.audit_log
                    /\ auditLog'[l.audit_log].accessed_by = l.caller
                    /\ auditLog'[l.audit_log].snapshot_time = l.snapshot_time
                    /\ SubSeq(auditLog', 1, Len(auditLog)) = auditLog
               ELSE /\ l.grades = <<>> /\ l.audit_log = 0
                    /\ l.total_grades = 0 /\ l.average_score = 0
                    /\ auditLog' = auditLog]_vars

\* the insert of the audit-log row failed for a department head's report
\* over a table that holds a grade inside the snapshot: nothing was returned
\* and nothing was logged
C29_Witness ==
    /\ last.op = "report" /\ last.exc = "DatabaseError"
    /\ Role(last.caller) = "department_head"
    /\ \E g \in grades : g.created_at <= last.snapshot_time
    /\ last.grades = <<>> /\ auditLog = <<>>

----------------------------------------------------------------------------
(* Creation-time ranges with one bound *)

OneSided(date_range) ==
    date_range # <<>> /\ (date_range[1] = None) # (date_range[2] = None)

\* the grades inside the present bound of a one-sided range
InBound(g, date_range) ==
    /\ date_range[1] # None => g.created_at >= date_range[1]
    /\ date_range[2] # None => g.created_at <= date_range[2]

\* C30 as claimed: for a department head's report whose creation-time range
\* has only a start or only an end, generate_grade_audit_report raises
\* nothing, returns the grades inside the present bound, and has written an
\* audit-log row whose filters_applied records the missing bound as null
C30_OneSidedRange ==
    (/\ last.op = "report" /\ Role(last.caller) = "department_head"
     /\ OneSided(last.date_range))
    => /\ last.exc = ""
       /\ last.audit_log \in 1..Len(auditLog)
       /\ \A i \in 1..Len(last.grades) : InBound(last.grades[i], last.date_range)
       /\ auditLog[last.audit_log].filters_applied.date_range =
              <<[start |-> IsoFormat(last.date_range[1]),
                 end |-> IsoFormat(last.date_range[2])]>>

====
